---- MODULE Spec2Model ----
(***************************************************************************)
(* Fix San Francisco (src/code.ts, lines 1-393): the tracking tables built *)
(* by fillTracking, the per-range transform applyToRange, the recursive    *)
(* traverse over the selection and run(), which reports the summary.       *)
(*                                                                         *)
(* Numbers.  Font sizes are kept in tenths of a point (199 is 19.9pt), so  *)
(* Math.floor is a real operation.  A letter-spacing value is kept in      *)
(* units of 1/10000, so fontSize * coefficient / TRACKING_UNIT is the      *)
(* integer size10 * coefficient.  A JavaScript number is a record          *)
(* [nan, v]: arithmetic on an undefined table entry gives NaN.             *)
(***************************************************************************)
EXTENDS Integers, Sequences, FiniteSets, TLC

VARIABLES
    ft,         \* fillTracking: its locals (dict, value, i), its arguments and position
    rg,         \* one applyToRange call on one range: the range, its result
    sm,         \* the end of run(): the count traverse returned, the message chosen
    selection,  \* figma.currentPage.selection: the root nodes, in order
    nodes,      \* the scene nodes: type, children, textStyleId, characters' styles
    nodes0,     \* the scene nodes as they were before the plugin first ran
    loaded,     \* the fonts the host has loaded (loadFontAsync resolved)
    runs,       \* how many times run() has been invoked
    pc,         \* where the current run() is suspended or has ended
    stack,      \* the activations of traverse: its nodes, loop index i and count
    cur,        \* the locals of the text node being processed and of applyToRange
    message,    \* the argument of the last figma.closePlugin
    calls,      \* every host call made so far (loadFontAsync, setRange...)
    visits,     \* the counter increments of the current run, in order
    outcomes,   \* what applyToRange returned, per node and character, this run
    reports     \* for every run that reached closePlugin: its count and result

mainVars == <<selection, nodes, nodes0, loaded, runs, pc, stack, cur, message,
              calls, visits, outcomes, reports>>
vars == <<ft, rg, sm, mainVars>>

(***************************************************************************)
(* Program constants (src/code.ts 7-18)                                    *)
(***************************************************************************)
FONT_DEFAULT == "SF Pro"
FONT_TEXT == "SF Pro Text"
FONT_DISPLAY == "SF Pro Display"
FONT_ROUNDED == "SF Pro Rounded"
FONT_NEW_YORK == "New York"

SIZE_MIN == 6
SIZE_MAX == 80
SIZE_MAX_ROUNDED == 80
SIZE_MAX_NEW_YORK == 261
SIZE_SWAP == 20
TRACKING_UNIT == 1000

(***************************************************************************)
(* Bounds of the model                                                     *)
(***************************************************************************)
\* control points of the arbitrary fillTracking inputs have keys in 0..MaxKey
MaxKey == 4
\* font sizes of the single-range specification run over 1..MaxPoint points
MaxPoint == 262
\* run() is invoked at most MaxRuns times on the same document
MaxRuns == 2
\* a text node has 1..MaxChars characters
MaxChars == 2
\* each counter of a count handed to the summary is in 0..MaxCount
MaxCount == 4

(***************************************************************************)
(* fillTracking (src/code.ts 21-35)                                        *)
(***************************************************************************)
\* an object with no own property
EmptyDict == [k \in {} |-> 0]

\* the loop condition of `for (let i = min; i < max; i++)`
FillContinues_Inclusive(st, max) == st.i <= max

FillContinues(st, max) == st.i < max

\* one iteration without `value = dict[i]`: the running value is never updated
FillStep_NoHold(st) ==
    IF st.i \in DOMAIN st.dict
    THEN [st EXCEPT !.i = st.i + 1]
    ELSE [st EXCEPT !.dict = (st.i :> st.value) @@ st.dict, !.i = st.i + 1]

\* one iteration of the loop body, with the i++ that follows it
FillStep(st) ==
    IF st.i \in DOMAIN st.dict
    THEN [st EXCEPT !.value = st.dict[st.i], !.i = st.i + 1]
    ELSE [st EXCEPT !.dict = (st.i :> st.value) @@ st.dict, !.i = st.i + 1]

\* up to n iterations of the loop: test, body, i++
RECURSIVE FillChunk(_, _, _)
FillChunk(st, max, n) ==
    IF n > 0 /\ FillContinues(st, max) THEN FillChunk(FillStep(st), max, n - 1) ELSE st

\* the loop, run until its test fails (sixteen iterations at a time, which keeps
\* the evaluation of the 255 iterations of TRACKING_NEW_YORK shallow)
RECURSIVE FillLoop(_, _)
FillLoop(st, max) ==
    IF FillContinues(st, max) THEN FillLoop(FillChunk(st, max, 16), max) ELSE st.dict

\* fillTracking(dict, min, max): `let value = 0`, the loop, `return dict`
FillTracking(dict, min, max) ==
    FillLoop([dict |-> dict, value |-> 0, i |-> min], max)

(***************************************************************************)
(* The control points of the five tables (src/code.ts 37-193)              *)
(***************************************************************************)
CP_DEFAULT ==
    (6 :> 41) @@ (7 :> 34) @@ (8 :> 26) @@ (9 :> 19) @@ (10 :> 12) @@ (11 :> 6)
    @@ (12 :> 0) @@ (13 :> -6) @@ (14 :> -11) @@ (15 :> -16) @@ (16 :> -20) @@ (17 :> -26)
    @@ (18 :> -25) @@ (19 :> -24) @@ (20 :> -23) @@ (21 :> -18) @@ (22 :> -12) @@ (23 :> -4)
    @@ (24 :> 3) @@ (25 :> 6) @@ (26 :> 8) @@ (27 :> 11) @@ (28 :> 14) @@ (31 :> 13)
    @@ (33 :> 12) @@ (35 :> 11) @@ (36 :> 10) @@ (41 :> 9) @@ (44 :> 8) @@ (49 :> 7)
    @@ (52 :> 6) @@ (58 :> 5) @@ (60 :> 4) @@ (66 :> 3) @@ (68 :> 2) @@ (76 :> 1)
    @@ (80 :> 0)

CP_TEXT ==
    (6 :> 41) @@ (7 :> 34) @@ (8 :> 26) @@ (9 :> 19) @@ (10 :> 12) @@ (11 :> 6)
    @@ (12 :> 0) @@ (13 :> -6) @@ (14 :> -11) @@ (15 :> -16) @@ (16 :> -20) @@ (17 :> -26)
    @@ (18 :> -25) @@ (19 :> -24)

CP_DISPLAY ==
    (20 :> 19) @@ (21 :> 17) @@ (22 :> 16) @@ (24 :> 15) @@ (25 :> 14) @@ (27 :> 13)
    @@ (30 :> 12) @@ (33 :> 11) @@ (36 :> 10) @@ (41 :> 9) @@ (44 :> 8) @@ (49 :> 7)
    @@ (52 :> 6) @@ (56 :> 5) @@ (60 :> 4) @@ (66 :> 3) @@ (68 :> 2) @@ (76 :> 1)

CP_ROUNDED ==
    (6 :> 87) @@ (7 :> 80) @@ (8 :> 72) @@ (9 :> 65) @@ (10 :> 58) @@ (11 :> 52)
    @@ (12 :> 46) @@ (13 :> 40) @@ (14 :> 35) @@ (15 :> 30) @@ (16 :> 26) @@ (17 :> 22)
    @@ (18 :> 21) @@ (19 :> 20) @@ (20 :> 18) @@ (21 :> 17) @@ (22 :> 16) @@ (24 :> 15)
    @@ (25 :> 14) @@ (28 :> 13) @@ (30 :> 12) @@ (35 :> 11) @@ (37 :> 10) @@ (43 :> 9)
    @@ (44 :> 8) @@ (50 :> 7) @@ (51 :> 6) @@ (58 :> 4) @@ (64 :> 3) @@ (66 :> 2)
    @@ (76 :> 1)

CP_NEW_YORK ==
    (6 :> 40) @@ (7 :> 32) @@ (8 :> 25) @@ (9 :> 20) @@ (10 :> 16) @@ (11 :> 11)
    @@ (12 :> 6) @@ (13 :> 4) @@ (14 :> 2) @@ (15 :> 0) @@ (16 :> -2) @@ (17 :> -4)
    @@ (18 :> -6) @@ (19 :> -8) @@ (20 :> -10) @@ (23 :> -11) @@ (26 :> -12) @@ (31 :> -13)
    @@ (34 :> -14) @@ (54 :> -15) @@ (70 :> -16) @@ (180 :> -17) @@ (220 :> -18)

TRACKING_DEFAULT == FillTracking(CP_DEFAULT, SIZE_MIN, SIZE_MAX)
TRACKING_TEXT == FillTracking(CP_TEXT, SIZE_MIN, SIZE_SWAP)
TRACKING_DISPLAY == FillTracking(CP_DISPLAY, SIZE_SWAP, SIZE_MAX)
TRACKING_ROUNDED == FillTracking(CP_ROUNDED, SIZE_MIN, SIZE_MAX_ROUNDED)
TRACKING_NEW_YORK == FillTracking(CP_NEW_YORK, SIZE_MIN, SIZE_MAX_NEW_YORK)

(***************************************************************************)
(* JavaScript numbers and the host's values                                *)
(***************************************************************************)
\* a letter-spacing value v is kept as the integer v * ValueScale, with font sizes
\* in tenths: fontSize * coefficient / TRACKING_UNIT = size10 * coefficient / ValueScale
ValueScale == 10 * TRACKING_UNIT

Num(v) == [nan |-> FALSE, v |-> v]
NaN == [nan |-> TRUE, v |-> 0]

\* table[key]: undefined when the object has no such property
Lookup(table, key) ==
    IF key \in DOMAIN table THEN [def |-> TRUE, v |-> table[key]] ELSE [def |-> FALSE, v |-> 0]

\* fontSize * entry / TRACKING_UNIT: NaN when the entry is undefined
Scaled(size10, entry) == IF entry.def THEN Num(size10 * entry.v) ELSE NaN

\* Math.floor of a font size, Math.max
Floor(size10) == size10 \div 10
Max(a, b) == IF a >= b THEN a ELSE b

Abs(n) == IF n < 0 THEN -n ELSE n

RECURSIVE Digits(_)
Digits(n) == IF n < 10 THEN 1 ELSE 1 + Digits(n \div 10)

RECURSIVE Pow10(_)
Pow10(e) == IF e <= 0 THEN 1 ELSE 10 * Pow10(e - 1)

\* an integer rounded to two significant digits, halves away from zero
Round2(n) ==
    LET a == Abs(n)
        p == Pow10(Digits(a) - 2)
        r == ((a + p \div 2) \div p) * p
    IN IF a < 100 THEN n ELSE IF n < 0 THEN -r ELSE r

\* Number.prototype.toPrecision(2): the string is fixed by the value rounded to
\* two significant digits ("NaN" for NaN), so the rounded value stands for it
ToPrecision2(x) == IF x.nan THEN NaN ELSE Num(Round2(x.v))

(***************************************************************************)
(* applyToRange (src/code.ts 201-301): what it computes from the range's   *)
(* font name, font size and letter spacing                                 *)
(***************************************************************************)
\* the family check dropped: every family is taken as supported
IsSupported_NoCheck(fontFamily) == TRUE

\* the negation of the test of line 219
IsSupported(fontFamily) ==
    ~(/\ fontFamily # FONT_DEFAULT
      /\ fontFamily # FONT_DISPLAY
      /\ fontFamily # FONT_TEXT
      /\ fontFamily # FONT_ROUNDED
      /\ fontFamily # FONT_NEW_YORK)

\* `fontSize <= SIZE_SWAP` for `fontSize < SIZE_SWAP`
SwapToText_Inclusive(fontFamily, size10) ==
    fontFamily = FONT_DISPLAY /\ size10 <= SIZE_SWAP * 10

\* the test of line 224: switch to Text if the text is small
SwapToText(fontFamily, size10) ==
    fontFamily = FONT_DISPLAY /\ size10 < SIZE_SWAP * 10

\* `fontSize > SIZE_SWAP` for `fontSize >= SIZE_SWAP`
SwapToDisplay_Strict(fontFamily, size10) ==
    fontFamily = FONT_TEXT /\ size10 > SIZE_SWAP * 10

\* the test of line 230: switch to Display if the text is larger
SwapToDisplay(fontFamily, size10) ==
    fontFamily = FONT_TEXT /\ size10 >= SIZE_SWAP * 10

\* lines 217-234: the family after the two tests, and which of them fired
Retarget(family, size10) ==
    LET first == SwapToText(family, size10)
        f1 == IF first THEN FONT_TEXT ELSE family
        second == SwapToDisplay(f1, size10)
        f2 == IF second THEN FONT_DISPLAY ELSE f1
    IN [fontFamily |-> f2, toText |-> first, toDisplay |-> second,
        isModified |-> first \/ second]

\* lines 249-289: the switch that sets newLetterSpacing.value
TrackingValue(fontFamily, size10) ==
    CASE fontFamily = FONT_DEFAULT ->
           IF size10 >= SIZE_MAX * 10 THEN Num(0)
           ELSE Scaled(size10, Lookup(TRACKING_DEFAULT, Floor(size10)))
      [] fontFamily = FONT_DISPLAY ->
           IF size10 >= SIZE_MAX * 10 THEN Num(0)
           ELSE Scaled(size10, Lookup(TRACKING_DISPLAY, Floor(size10)))
      [] fontFamily = FONT_TEXT ->
           Scaled(size10, Lookup(TRACKING_TEXT, Max(SIZE_MIN, Floor(size10))))
      [] fontFamily = FONT_ROUNDED ->
           IF size10 >= SIZE_MAX_ROUNDED * 10 THEN Num(0)
           ELSE Scaled(size10, Lookup(TRACKING_ROUNDED, Max(SIZE_MIN, Floor(size10))))
      [] fontFamily = FONT_NEW_YORK ->
           IF size10 >= SIZE_MAX_NEW_YORK * 10 THEN Num(0)
           ELSE Scaled(size10, Lookup(TRACKING_NEW_YORK, Max(SIZE_MIN, Floor(size10))))
      [] OTHER -> Num(0)

\* lines 245-289
NewLetterSpacing(fontFamily, size10) ==
    [value |-> TrackingValue(fontFamily, size10), unit |-> "PIXELS"]

\* lines 293-297: has the tracking been modified
TrackingModified(newLetterSpacing, letterSpacing) ==
    \/ ToPrecision2(newLetterSpacing.value) # ToPrecision2(letterSpacing.value)
    \/ newLetterSpacing.unit # letterSpacing.unit

\* applyToRange on a range that reads fontName, fontSize, letterSpacing (none of
\* them mixed) and whose font load succeeds: the font it loads, what it writes
\* and what it returns
ApplyToRange(r) ==
    IF ~IsSupported(r.fontName.family)
    THEN [outcome |-> "Unsupported", writes |-> FALSE, toText |-> FALSE, toDisplay |-> FALSE,
          newFontName |-> r.fontName, newLetterSpacing |-> r.letterSpacing]
    ELSE LET t == Retarget(r.fontName.family, r.fontSize)
             nls == NewLetterSpacing(t.fontFamily, r.fontSize)
             modified == t.isModified \/ TrackingModified(nls, r.letterSpacing)
         IN [outcome |-> IF modified THEN "Modified" ELSE "Unmodified",
             writes |-> TRUE, toText |-> t.toText, toDisplay |-> t.toDisplay,
             newFontName |-> [family |-> t.fontFamily, style |-> r.fontName.style],
             newLetterSpacing |-> nls]

(***************************************************************************)
(* SpecFill: fillTracking run step by step on the five tables' arguments   *)
(* and on every small control-point map                                    *)
(***************************************************************************)
\* the calls the module makes at load time (src/code.ts 37, 81, 102, 127, 165)
TableCalls ==
    { [name |-> "TRACKING_DEFAULT", dict |-> CP_DEFAULT, min |-> SIZE_MIN, max |-> SIZE_MAX],
      [name |-> "TRACKING_TEXT", dict |-> CP_TEXT, min |-> SIZE_MIN, max |-> SIZE_SWAP],
      [name |-> "TRACKING_DISPLAY", dict |-> CP_DISPLAY, min |-> SIZE_SWAP, max |-> SIZE_MAX],
      [name |-> "TRACKING_ROUNDED", dict |-> CP_ROUNDED, min |-> SIZE_MIN,
       max |-> SIZE_MAX_ROUNDED],
      [name |-> "TRACKING_NEW_YORK", dict |-> CP_NEW_YORK, min |-> SIZE_MIN,
       max |-> SIZE_MAX_NEW_YORK] }

\* the coefficients of the arbitrary control points
FillValues == {-3, 7}

\* every control-point map with keys in 0..MaxKey, over every domain min <= max
SmallCalls ==
    { [name |-> "call", dict |-> d, min |-> lo, max |-> hi] :
        d \in UNION { [K -> FillValues] : K \in SUBSET (0..MaxKey) },
        lo \in 0..MaxKey, hi \in 0..MaxKey }

\* the two worked examples of the specification (section 8)
ExampleCalls ==
    { [name |-> "call", dict |-> (20 :> 19) @@ (22 :> 16), min |-> 20, max |-> 24],
      [name |-> "call", dict |-> (9 :> 19) @@ (10 :> 12) @@ (11 :> 6), min |-> 6, max |-> 12] }

FillCalls == TableCalls \cup ExampleCalls \cup { c \in SmallCalls : c.min <= c.max }

IdleFill == [pc |-> "idle"]
IdleRange == [pc |-> "idle"]
IdleSummary == [pc |-> "idle"]

\* no document and no run: the state of the traversal in SpecFill and SpecRange
IdleMain ==
    /\ selection = <<>> /\ nodes = <<>> /\ nodes0 = <<>> /\ loaded = {} /\ runs = 0
    /\ pc = "idle" /\ stack = <<>> /\ cur = [node |-> 0] /\ message = [text |-> ""]
    /\ calls = {} /\ visits = <<>> /\ outcomes = {} /\ reports = <<>>

FillInit ==
    /\ rg = IdleRange
    /\ sm = IdleSummary
    /\ IdleMain
    /\ \E c \in FillCalls :
        ft = [pc |-> "loop", name |-> c.name, dict0 |-> c.dict, min |-> c.min, max |-> c.max,
              dict |-> c.dict, value |-> 0, i |-> c.min]

\* one pass through the loop body
FillIter ==
    /\ ft.pc = "loop"
    /\ FillContinues(ft, ft.max)
    /\ LET st == FillStep([dict |-> ft.dict, value |-> ft.value, i |-> ft.i])
       IN ft' = [ft EXCEPT !.dict = st.dict, !.value = st.value, !.i = st.i]
    /\ UNCHANGED <<rg, sm, mainVars>>

\* the loop ends: return dict
FillReturn ==
    /\ ft.pc = "loop"
    /\ ~FillContinues(ft, ft.max)
    /\ ft' = [ft EXCEPT !.pc = "returned"]
    /\ UNCHANGED <<rg, sm, mainVars>>

FillNext == FillIter \/ FillReturn

SpecFill == FillInit /\ [][FillNext]_vars

FillReturned == ft.pc = "returned"

\* the domain [min, max) of a call
FillDomain == ft.min .. (ft.max - 1)

Maximum(S) == CHOOSE x \in S : \A y \in S : y <= x

(***************************************************************************)
(* SpecRange: applyToRange on one range, called once and then once more,   *)
(* over every family, integer and fractional size and starting tracking    *)
(***************************************************************************)
Families == {FONT_DEFAULT, FONT_TEXT, FONT_DISPLAY, FONT_ROUNDED, FONT_NEW_YORK, "Helvetica"}
Styles == {"Regular", "Bold"}

\* 1pt .. MaxPoint pt, and each with nine tenths more (19.9pt)
RangeSizes == { 10 * p : p \in 1..MaxPoint } \cup { 10 * p + 9 : p \in 1..MaxPoint }

\* the host's default tracking, no tracking in pixels, and the tracking the
\* plugin itself would set
StartSpacings(family, size10) ==
    LET fixed == NewLetterSpacing(Retarget(family, size10).fontFamily, size10)
    IN {[value |-> Num(0), unit |-> "PERCENT"], [value |-> Num(0), unit |-> "PIXELS"]}
         \cup (IF fixed.value.nan THEN {} ELSE {fixed})

NoResult == [outcome |-> "none"]

RangeInit ==
    /\ ft = IdleFill
    /\ sm = IdleSummary
    /\ IdleMain
    /\ \E f \in Families, st \in Styles, sz \in RangeSizes :
         \E ls \in StartSpacings(f, sz) :
            LET r == [fontName |-> [family |-> f, style |-> st], fontSize |-> sz,
                      letterSpacing |-> ls]
            IN rg = [pc |-> "start", run0 |-> r, run |-> r,
                     first |-> NoResult, second |-> NoResult]

\* the range after the two writes of a call (lines 242 and 290)
Written(r, res) ==
    IF res.writes
    THEN [r EXCEPT !.fontName = res.newFontName, !.letterSpacing = res.newLetterSpacing]
    ELSE r

\* what the host does with a letter spacing whose value is NaN is outside the
\* source: it stores the value or setRangeLetterSpacing throws
HostMayThrow(res) == res.writes /\ res.newLetterSpacing.value.nan

\* the first call returns
RangeApply ==
    /\ rg.pc = "start"
    /\ LET res == ApplyToRange(rg.run)
       IN rg' = [rg EXCEPT !.pc = "once", !.first = res, !.run = Written(rg.run, res)]
    /\ UNCHANGED <<ft, sm, mainVars>>

\* the second call, on the range as the first one left it, returns
RangeApplyAgain ==
    /\ rg.pc = "once"
    /\ LET res == ApplyToRange(rg.run)
       IN rg' = [rg EXCEPT !.pc = "twice", !.second = res, !.run = Written(rg.run, res)]
    /\ UNCHANGED <<ft, sm, mainVars>>

\* setRangeLetterSpacing throws on NaN: the family is written, the tracking is not
RangeThrow ==
    /\ rg.pc \in {"start", "once"}
    /\ LET res == ApplyToRange(rg.run)
       IN /\ HostMayThrow(res)
          /\ rg' = [rg EXCEPT !.pc = "threw",
                              !.first = IF rg.pc = "start" THEN res ELSE @,
                              !.second = IF rg.pc = "once" THEN res ELSE @,
                              !.run = [@ EXCEPT !.fontName = res.newFontName]]
    /\ UNCHANGED <<ft, sm, mainVars>>

RangeNext == RangeApply \/ RangeApplyAgain \/ RangeThrow

SpecRange == RangeInit /\ [][RangeNext]_vars

(***************************************************************************)
(* The document: scene nodes and their text                                *)
(***************************************************************************)
\* a character's style: what getRangeFontName, getRangeFontSize and
\* getRangeLetterSpacing return for it
Run(family, style, size10, ls) ==
    [fontName |-> [family |-> family, style |-> style], fontSize |-> size10,
     letterSpacing |-> ls]

ZeroPercent == [value |-> Num(0), unit |-> "PERCENT"]
ZeroPixels == [value |-> Num(0), unit |-> "PIXELS"]

\* the styles the characters of the documents are drawn from
DisplaySmall == Run(FONT_DISPLAY, "Regular", 199, ZeroPercent)   \* 19.9pt: becomes Text
TextBold == Run(FONT_TEXT, "Bold", 130, ZeroPercent)             \* tracking to set
NewYorkFixed == Run(FONT_NEW_YORK, "Regular", 2610, ZeroPixels)  \* already as the plugin sets it
Helvetica == Run("Helvetica", "Regular", 120, ZeroPercent)       \* not supported
DefaultTiny == Run(FONT_DEFAULT, "Regular", 50, ZeroPercent)     \* 5pt: below SIZE_MIN
DisplayAtSwap == Run(FONT_DISPLAY, "Regular", 200, ZeroPercent)  \* exactly SIZE_SWAP
SampleRuns == {DisplaySmall, TextBold, NewYorkFixed, Helvetica, DefaultTiny, DisplayAtSwap}

TextNode(styleId, chars) ==
    [type |-> "TEXT", hasChildren |-> FALSE, children |-> <<>>, textStyleId |-> styleId,
     chars |-> chars]
FrameNode(children) ==
    [type |-> "FRAME", hasChildren |-> TRUE, children |-> children, textStyleId |-> "",
     chars |-> <<>>]
Rectangle ==
    [type |-> "RECTANGLE", hasChildren |-> FALSE, children |-> <<>>, textStyleId |-> "",
     chars |-> <<>>]

\* text nodes without a text style, of 1..MaxChars characters
UnstyledTexts ==
    { TextNode("", cs) : cs \in UNION { [1..k -> SampleRuns] : k \in 1..MaxChars } }

\* text nodes with a text style: one id, or the mixed marker of a text whose
\* characters have different text styles
StyledTexts ==
    { TextNode("S:1", <<DisplaySmall>>), TextNode("MIXED", <<DisplaySmall, TextBold>>) }

Leaves == UnstyledTexts \cup StyledTexts \cup {Rectangle, FrameNode(<<>>)}

\* an unstyled text of more than one character
IsLong(n) == n.type = "TEXT" /\ n.textStyleId = "" /\ Len(n.chars) > 1

\* the documents: two leaves side by side (the first may be a long text), a
\* frame holding a leaf followed by a leaf, a leaf two frames deep
Documents(sel, ns) ==
    \/ \E a, b \in Leaves :
          /\ ~IsLong(b)
          /\ \/ sel = <<1, 2>> /\ ns = <<a, b>>
             \/ ~IsLong(a) /\ sel = <<1, 3>> /\ ns = <<FrameNode(<<2>>), a, b>>
    \/ \E a \in Leaves :
          sel = <<1>> /\ ns = <<FrameNode(<<2>>), FrameNode(<<3>>), a>>

(***************************************************************************)
(* Host reads (src/code.ts 206-213, 319, 325-329)                          *)
(***************************************************************************)
\* a property of a range reads as figma.mixed when its characters differ in it
FontNameMixed(chars, start, end) ==
    \E p, q \in start..end : chars[p].fontName # chars[q].fontName
FontSizeMixed(chars, start, end) ==
    \E p, q \in start..end : chars[p].fontSize # chars[q].fontSize
LetterSpacingMixed(chars, start, end) ==
    \E p, q \in start..end : chars[p].letterSpacing # chars[q].letterSpacing

\* the test of lines 209-213 (applyToRange) and 325-329 (traverse)
RangeMixed(chars, start, end) ==
    \/ FontNameMixed(chars, start, end)
    \/ FontSizeMixed(chars, start, end)
    \/ LetterSpacingMixed(chars, start, end)

\* only a non-empty string id counts as a text style: the mixed marker does not
Skips_StringIdOnly(node) ==
    node.type # "TEXT" \/ node.textStyleId \notin {"", "MIXED"}

\* the test of line 319: `node.type !== "TEXT" || node.textStyleId` ("" is the
\* only falsy id; an id string and the figma.mixed symbol are truthy)
Skips(node) ==
    node.type # "TEXT" \/ node.textStyleId # ""

(***************************************************************************)
(* traverse (src/code.ts 303-371) and run (373-391)                        *)
(***************************************************************************)
Count0 == [texts |-> 0, others |-> 0, modified |-> 0]

\* a new activation of traverse(list)
Activation(list) == [nodes |-> list, i |-> 1, count |-> Count0, entered |-> FALSE]

NoCur == [node |-> 0]
NoFont == [family |-> "", style |-> ""]

Top == stack[Len(stack)]
TopNode == nodes[Top.nodes[Top.i]]
InLoop == pc = "loop" /\ Len(stack) > 0 /\ Top.i <= Len(Top.nodes)

\* count.<bucket>++ in the top activation, then the next iteration (i++)
Counted(bucket) ==
    [stack EXCEPT ![Len(stack)] =
        [@ EXCEPT !.count = IF bucket = "none" THEN @
                            ELSE [@ EXCEPT ![bucket] = @ + 1],
                  !.i = @ + 1, !.entered = FALSE]]

Visited(id, bucket) ==
    IF bucket = "none" THEN visits ELSE Append(visits, [node |-> id, bucket |-> bucket])

\* the test for texts and others comes before the tests of count.modified
Message_TextsFirst(count) ==
    IF count.texts # 0 /\ count.others # 0
    THEN [text |-> "Texts in selection are already fixed", n |-> 0]
    ELSE IF count.modified = 1 THEN [text |-> "Updated 1 text", n |-> 1]
    ELSE IF count.modified # 0 THEN [text |-> "Updated N texts", n |-> count.modified]
    ELSE IF count.texts = 1 /\ count.others = 0
         THEN [text |-> "Text is already fixed", n |-> 0]
    ELSE IF count.texts # 0 THEN [text |-> "Selected texts are already fixed", n |-> 0]
    ELSE [text |-> "Please select texts", n |-> 0]

\* the summary of lines 375-389; `n` is the number interpolated into the text
Message(count) ==
    IF count.modified = 1 THEN [text |-> "Updated 1 text", n |-> 1]
    ELSE IF count.modified # 0 THEN [text |-> "Updated N texts", n |-> count.modified]
    ELSE IF count.texts # 0 /\ count.others # 0
         THEN [text |-> "Texts in selection are already fixed", n |-> 0]
    ELSE IF count.texts = 1 /\ count.others = 0
         THEN [text |-> "Text is already fixed", n |-> 0]
    ELSE IF count.texts # 0 THEN [text |-> "Selected texts are already fixed", n |-> 0]
    ELSE [text |-> "Please select texts with 'SF Pro', 'SF Pro Display', 'SF Pro Text', 'SF Pro Rounded', or 'New York' font.",
          n |-> 0]

\* a host call, as logged: the range it is for, the font of that range when the
\* call is made, the font passed, and whether that font was loaded at that time
Call(op, site, id, start, end, font) ==
    [op |-> op, site |-> site, node |-> id, start |-> start, end |-> end,
     rangeFont |-> nodes[id].chars[start].fontName, font |-> font,
     fontLoaded |-> font \in loaded]

Init ==
    /\ ft = IdleFill
    /\ rg = IdleRange
    /\ sm = IdleSummary
    /\ Documents(selection, nodes)
    /\ nodes0 = nodes
    /\ loaded = {}
    /\ runs = 0
    /\ pc = "idle"
    /\ stack = <<>>
    /\ cur = NoCur
    /\ message = [text |-> ""]
    /\ calls = {}
    /\ visits = <<>>
    /\ outcomes = {}
    /\ reports = <<>>

\* the user runs the plugin: run() calls traverse(figma.currentPage.selection)
RunStart ==
    /\ pc \in {"idle", "done", "failed"}
    /\ runs < MaxRuns
    /\ runs' = runs + 1
    /\ pc' = "loop"
    /\ stack' = <<Activation(selection)>>
    /\ cur' = NoCur
    /\ visits' = <<>>
    /\ outcomes' = {}
    /\ UNCHANGED <<ft, rg, sm, selection, nodes, nodes0, loaded, message, calls, reports>>

\* lines 312-313: the node has children: traverse(node.children)
Descend ==
    /\ InLoop
    /\ ~Top.entered
    /\ TopNode.hasChildren
    /\ stack' = Append([stack EXCEPT ![Len(stack)].entered = TRUE],
                       Activation(TopNode.children))
    /\ UNCHANGED <<ft, rg, sm, selection, nodes, nodes0, loaded, runs, pc, cur, message,
                   calls, visits, outcomes, reports>>

\* the count of the children is returned and dropped by the caller
Return_NoMerge ==
    /\ pc = "loop"
    /\ Len(stack) > 1
    /\ Top.i > Len(Top.nodes)
    /\ stack' = SubSeq(stack, 1, Len(stack) - 1)
    /\ UNCHANGED <<ft, rg, sm, selection, nodes, nodes0, loaded, runs, pc, cur, message,
                   calls, visits, outcomes, reports>>

\* lines 313-316, 370: the loop over the children is over; their count is
\* returned and added to the caller's
Return ==
    /\ pc = "loop"
    /\ Len(stack) > 1
    /\ Top.i > Len(Top.nodes)
    /\ LET child == Top.count
           rest == SubSeq(stack, 1, Len(stack) - 1)
       IN stack' = [rest EXCEPT ![Len(rest)].count =
                       [texts |-> @.texts + child.texts,
                        modified |-> @.modified + child.modified,
                        others |-> @.others + child.others]]
    /\ UNCHANGED <<ft, rg, sm, selection, nodes, nodes0, loaded, runs, pc, cur, message,
                   calls, visits, outcomes, reports>>

\* the node's children, if it has any, have been traversed
AtNode == InLoop /\ (Top.entered \/ ~TopNode.hasChildren)

\* lines 319-322: not a text, or a text with a text style
VisitOther ==
    /\ AtNode
    /\ Skips(TopNode)
    /\ stack' = Counted("others")
    /\ visits' = Visited(Top.nodes[Top.i], "others")
    /\ UNCHANGED <<ft, rg, sm, selection, nodes, nodes0, loaded, runs, pc, cur, message,
                   calls, outcomes, reports>>

\* the locals of the processing of text node id
Processing(id, mixed, start, end) ==
    [node |-> id, mixed |-> mixed, before |-> nodes[id].chars, wrote |-> FALSE,
     j |-> 1, start |-> start, end |-> end,
     isModified |-> FALSE, isUnmodified |-> FALSE,
     range |-> NoResult, res |-> NoResult, pending |-> NoFont, site |-> "none"]

\* lines 325-333: a text with mixed styles; the first loadFontAsync of the
\* loop that loads all current fonts is called
VisitMixed ==
    /\ AtNode
    /\ ~Skips(TopNode)
    /\ RangeMixed(TopNode.chars, 1, Len(TopNode.chars))
    /\ LET id == Top.nodes[Top.i]
       IN /\ cur' = [Processing(id, TRUE, 1, 1) EXCEPT !.site = "preload"]
          /\ calls' = calls \cup
                {Call("loadFontAsync", "preload", id, 1, 1, nodes[id].chars[1].fontName)}
    /\ pc' = "preload"
    /\ UNCHANGED <<ft, rg, sm, selection, nodes, nodes0, loaded, runs, stack, message,
                   visits, outcomes, reports>>

\* lines 352-354: a text with one style: applyToRange on the entire text
VisitUniform ==
    /\ AtNode
    /\ ~Skips(TopNode)
    /\ ~RangeMixed(TopNode.chars, 1, Len(TopNode.chars))
    /\ cur' = Processing(Top.nodes[Top.i], FALSE, 1, Len(TopNode.chars))
    /\ pc' = "applyStart"
    /\ UNCHANGED <<ft, rg, sm, selection, nodes, nodes0, loaded, runs, stack, message,
                   calls, visits, outcomes, reports>>

\* line 333: the font of character j is loaded; the next one is requested, or
\* the loop of line 337 begins
PreloadOk ==
    /\ pc = "preload"
    /\ LET chars == nodes[cur.node].chars
       IN /\ loaded' = loaded \cup {chars[cur.j].fontName}
          /\ IF cur.j < Len(chars)
             THEN /\ cur' = [cur EXCEPT !.j = @ + 1]
                  /\ calls' = calls \cup
                        {[Call("loadFontAsync", "preload", cur.node, cur.j + 1, cur.j + 1,
                               chars[cur.j + 1].fontName)
                          EXCEPT !.fontLoaded = chars[cur.j + 1].fontName \in loaded']}
                  /\ pc' = "preload"
             ELSE /\ cur' = [cur EXCEPT !.site = "none"]
                  /\ calls' = calls
                  /\ pc' = "applyStart"
    /\ UNCHANGED <<ft, rg, sm, selection, nodes, nodes0, runs, stack, message, visits,
                   outcomes, reports>>

\* a font the host has not loaded may fail to load: the promise is rejected, no
\* caller catches it, and run() never reaches closePlugin
PreloadFail ==
    /\ pc = "preload"
    /\ nodes[cur.node].chars[cur.j].fontName \notin loaded
    /\ pc' = "failed"
    /\ UNCHANGED <<ft, rg, sm, selection, nodes, nodes0, loaded, runs, stack, cur, message,
                   calls, visits, outcomes, reports>>

\* the previous font is loaded instead of the new one
FontToLoad_Current(r, res) == r.fontName

\* lines 237-241: loadFontAsync is called with newFontName
FontToLoad(r, res) == res.newFontName

\* applyToRange has returned `outcome`: the switch of line 338 or 354, the
\* counters, and the next character or the next node
Finish(outcome, wrote) ==
    LET id == cur.node
        mod == cur.isModified \/ outcome = "Modified"
        unmod == cur.isUnmodified \/ outcome = "Unmodified"
    IN /\ outcomes' = outcomes \cup
            { [node |-> id, pos |-> p, outcome |-> outcome] : p \in cur.start..cur.end }
       /\ IF cur.mixed /\ cur.end < Len(nodes[id].chars)
          THEN /\ cur' = [cur EXCEPT !.start = cur.end + 1, !.end = cur.end + 1,
                                     !.isModified = mod, !.isUnmodified = unmod,
                                     !.wrote = wrote, !.range = NoResult, !.res = NoResult,
                                     !.pending = NoFont, !.site = "none"]
               /\ pc' = "applyStart"
               /\ UNCHANGED <<stack, visits>>
          ELSE LET bucket ==
                     IF cur.mixed
                     THEN IF mod THEN "modified" ELSE IF unmod THEN "texts" ELSE "others"
                     ELSE CASE outcome = "Modified" -> "modified"
                            [] outcome = "Unmodified" -> "texts"
                            [] outcome = "Unsupported" -> "others"
                            [] OTHER -> "none"
               IN /\ stack' = Counted(bucket)
                  /\ visits' = Visited(id, bucket)
                  /\ cur' = NoCur
                  /\ pc' = "loop"

\* what applyToRange reads (lines 206-208) for the range it is called on
RangeRead == nodes[cur.node].chars[cur.start]
RangeIsMixed == RangeMixed(nodes[cur.node].chars, cur.start, cur.end)

\* lines 209-222: applyToRange returns without a load: a mixed range (nothing is
\* returned) or a family that is not supported
ApplyReturns ==
    /\ pc = "applyStart"
    /\ RangeIsMixed \/ ~ApplyToRange(RangeRead).writes
    /\ Finish(IF RangeIsMixed THEN "undefined" ELSE ApplyToRange(RangeRead).outcome, cur.wrote)
    /\ UNCHANGED <<ft, rg, sm, selection, nodes, nodes0, loaded, runs, message, calls, reports>>

\* lines 217-241: a supported family: the new font name is computed and
\* loadFontAsync is called
ApplyCallsLoad ==
    /\ pc = "applyStart"
    /\ ~RangeIsMixed
    /\ ApplyToRange(RangeRead).writes
    /\ LET res == ApplyToRange(RangeRead)
           font == FontToLoad(RangeRead, res)
       IN /\ cur' = [cur EXCEPT !.range = RangeRead, !.res = res, !.pending = font,
                                !.site = "apply"]
          /\ calls' = calls \cup
                {Call("loadFontAsync", "apply", cur.node, cur.start, cur.end, font)}
    /\ pc' = "applyLoad"
    /\ UNCHANGED <<ft, rg, sm, selection, nodes, nodes0, loaded, runs, stack, message,
                   visits, outcomes, reports>>

\* the two writes of lines 242 and 290, as host calls
WriteCalls(ld) ==
    { [Call("setRangeFontName", "apply", cur.node, cur.start, cur.end, cur.res.newFontName)
         EXCEPT !.fontLoaded = cur.res.newFontName \in ld],
      [Call("setRangeLetterSpacing", "apply", cur.node, cur.start, cur.end,
            cur.res.newFontName)
         EXCEPT !.fontLoaded = cur.res.newFontName \in ld] }

SetFontName(c) == [c EXCEPT !.fontName = cur.res.newFontName]
SetFontNameAndSpacing(c) ==
    [c EXCEPT !.fontName = cur.res.newFontName, !.letterSpacing = cur.res.newLetterSpacing]

\* the characters of the range as the writes leave them: both writes, or only
\* the first when the second throws
WriteRange(both) ==
    [nodes EXCEPT ![cur.node].chars =
        [p \in DOMAIN @ |->
            IF p \in cur.start..cur.end
            THEN IF both THEN SetFontNameAndSpacing(@[p]) ELSE SetFontName(@[p])
            ELSE @[p]]]

\* lines 241-300: the font is loaded; the family and the tracking are written
\* and the outcome is returned
ApplyLoadOk ==
    /\ pc = "applyLoad"
    /\ loaded' = loaded \cup {cur.pending}
    /\ nodes' = WriteRange(TRUE)
    /\ calls' = calls \cup WriteCalls(loaded')
    /\ Finish(cur.res.outcome, TRUE)
    /\ UNCHANGED <<ft, rg, sm, selection, nodes0, runs, message, reports>>

\* lines 241-290 when the host refuses a NaN tracking: the family is written,
\* setRangeLetterSpacing throws, and the run ends as with a failed load
ApplyWriteThrows ==
    /\ pc = "applyLoad"
    /\ HostMayThrow(cur.res)
    /\ loaded' = loaded \cup {cur.pending}
    /\ nodes' = WriteRange(FALSE)
    /\ calls' = calls \cup WriteCalls(loaded')
    /\ cur' = [cur EXCEPT !.wrote = TRUE, !.site = "write"]
    /\ pc' = "failed"
    /\ UNCHANGED <<ft, rg, sm, selection, nodes0, runs, stack, message, visits, outcomes,
                   reports>>

\* line 241: the load fails: nothing is written, the rejection reaches run()
ApplyLoadFail ==
    /\ pc = "applyLoad"
    /\ cur.pending \notin loaded
    /\ pc' = "failed"
    /\ UNCHANGED <<ft, rg, sm, selection, nodes, nodes0, loaded, runs, stack, cur, message,
                   calls, visits, outcomes, reports>>

\* lines 374-390: traverse has returned to run(): the message is chosen and
\* figma.closePlugin(message) is called
Close ==
    /\ pc = "loop"
    /\ Len(stack) = 1
    /\ Top.i > Len(Top.nodes)
    /\ message' = Message(Top.count)
    /\ reports' = Append(reports, [run |-> runs, count |-> Top.count, message |-> message',
                                   visits |-> visits, outcomes |-> outcomes,
                                   nodes |-> nodes])
    /\ pc' = "done"
    /\ stack' = <<>>
    /\ UNCHANGED <<ft, rg, sm, selection, nodes, nodes0, loaded, runs, cur, calls, visits,
                   outcomes>>

\* the steps of a run that has begun
RunContinues ==
    \/ Descend \/ Return \/ VisitOther \/ VisitMixed \/ VisitUniform
    \/ PreloadOk \/ PreloadFail
    \/ ApplyReturns \/ ApplyCallsLoad \/ ApplyLoadOk \/ ApplyWriteThrows \/ ApplyLoadFail
    \/ Close

Next ==
    \/ RunStart
    \/ Descend \/ Return \/ VisitOther \/ VisitMixed \/ VisitUniform
    \/ PreloadOk \/ PreloadFail
    \/ ApplyReturns \/ ApplyCallsLoad \/ ApplyLoadOk \/ ApplyWriteThrows \/ ApplyLoadFail
    \/ Close

Spec == Init /\ [][Next]_vars

(***************************************************************************)
(* The summary of run() on its own (src/code.ts 374-390): SpecSummary      *)
(***************************************************************************)
\* the counts traverse may return to run(): non-negative integers
Counts ==
    [texts : 0..MaxCount, others : 0..MaxCount, modified : 0..MaxCount]

\* line 374: traverse has returned `count` to run()
SummaryInit ==
    /\ ft = IdleFill
    /\ rg = IdleRange
    /\ IdleMain
    /\ \E c \in Counts : sm = [pc |-> "counted", count |-> c]

\* lines 375-390: the message is chosen and passed to figma.closePlugin
Summarise ==
    /\ sm.pc = "counted"
    /\ sm' = [pc |-> "closed", count |-> sm.count, message |-> Message(sm.count)]
    /\ UNCHANGED <<ft, rg, mainVars>>

SummaryNext == Summarise

SpecSummary == SummaryInit /\ [][SummaryNext]_vars

(***************************************************************************)
(* Claims about fillTracking, checked under SpecFill                       *)
(***************************************************************************)
\* C7 as stated: each of the five tables has exactly the entries of [min, max),
\* none outside it, and a call with min = max returns an empty result.
C7_NoEntryOutside ==
    FillReturned =>
        /\ (ft.name # "call" => DOMAIN ft.dict = FillDomain)
        /\ (ft.min = ft.max => DOMAIN ft.dict = {})

\* C7 amended: the result has an entry for every integer of [min, max); its
\* entries outside [min, max) are exactly the control points given outside it,
\* unchanged (TRACKING_DEFAULT keeps its control point 80: 0); with min = max the
\* result is the control-point map as given.
C7_TableDensity ==
    FillReturned =>
        /\ FillDomain \subseteq DOMAIN ft.dict
        /\ DOMAIN ft.dict = DOMAIN ft.dict0 \cup FillDomain
        /\ \A k \in DOMAIN ft.dict \ FillDomain :
              k \in DOMAIN ft.dict0 /\ ft.dict[k] = ft.dict0[k]
        /\ (ft.min = ft.max => ft.dict = ft.dict0)

\* TRACKING_DEFAULT is built: dense over [6, 80), and 80 is still an entry
C7_Witness ==
    /\ FillReturned
    /\ ft.name = "TRACKING_DEFAULT"
    /\ \A s \in SIZE_MIN .. (SIZE_MAX - 1) : s \in DOMAIN ft.dict
    /\ SIZE_MAX \in DOMAIN ft.dict

\* C8: every size of [min, max) gets the value of the control point with the
\* greatest key k, min <= k <= size, and 0 when there is none; control points
\* below min are never used.
C8_StepHold ==
    FillReturned =>
        /\ \A s \in FillDomain :
              LET K == { k \in DOMAIN ft.dict0 : ft.min <= k /\ k <= s }
              IN ft.dict[s] = IF K = {} THEN 0 ELSE ft.dict0[Maximum(K)]
        /\ (ft.dict0 = (20 :> 19) @@ (22 :> 16) /\ ft.min = 20 /\ ft.max = 24
              => ft.dict = (20 :> 19) @@ (21 :> 19) @@ (22 :> 16) @@ (23 :> 16))
        /\ (9 \in DOMAIN ft.dict0 /\ ft.min = 6 /\ ft.max = 12
              /\ DOMAIN ft.dict0 \cap (6..8) = {}
              => ft.dict[6] = 0 /\ ft.dict[7] = 0 /\ ft.dict[8] = 0)

\* a call in which a control point lies below min, one inside the domain after
\* its first size, and the sizes before and after it are filled
C8_Witness ==
    /\ FillReturned
    /\ ft.name = "call"
    /\ \E k \in DOMAIN ft.dict0 : k < ft.min
    /\ \E k \in DOMAIN ft.dict0 :
          /\ ft.min < k /\ k + 1 < ft.max
          /\ k - 1 \notin DOMAIN ft.dict0 /\ k + 1 \notin DOMAIN ft.dict0
          /\ ft.dict[k - 1] = 0 /\ ft.dict[k + 1] = ft.dict0[k]

(***************************************************************************)
(* Claims about one applyToRange call, checked under SpecRange             *)
(***************************************************************************)
\* the first call has made its writes (its tracking write may have thrown)
RangeApplied == rg.pc \in {"once", "threw"}

\* C3: Display below 20pt is retargeted to Text, Text at 20pt or more to Display,
\* never both; from either family the result is Text iff size < 20; SF Pro,
\* SF Pro Rounded and New York keep their family; the style is never changed.
C3_VariantSwap ==
    RangeApplied =>
        LET f0 == rg.run0.fontName.family
            sz == rg.run0.fontSize
            f1 == rg.run.fontName.family
        IN /\ (f0 = "SF Pro Display" /\ sz < 200 => f1 = "SF Pro Text" /\ rg.first.toText)
           /\ (f0 = "SF Pro Text" /\ sz >= 200 => f1 = "SF Pro Display" /\ rg.first.toDisplay)
           /\ ~(rg.first.toText /\ rg.first.toDisplay)
           /\ (f0 \in {"SF Pro Text", "SF Pro Display"} =>
                 /\ f1 \in {"SF Pro Text", "SF Pro Display"}
                 /\ (f1 = "SF Pro Text" <=> sz < 200))
           /\ (f0 \in {"SF Pro", "SF Pro Rounded", "New York", "Helvetica"} =>
                 f1 = f0 /\ ~rg.first.toText /\ ~rg.first.toDisplay)
           /\ rg.run.fontName.style = rg.run0.fontName.style

\* Text at exactly 20pt has become Display
C3_Witness ==
    /\ rg.pc = "once"
    /\ rg.run0.fontName.family = "SF Pro Text"
    /\ rg.run0.fontSize = 200
    /\ rg.run.fontName.family = "SF Pro Display"
    /\ rg.first.outcome = "Modified"

\* the table and the maximum size the claim gives each family (none for Text,
\* which the swap rule keeps below 20pt)
ClaimTable(family) ==
    CASE family = "SF Pro" -> TRACKING_DEFAULT
      [] family = "SF Pro Text" -> TRACKING_TEXT
      [] family = "SF Pro Display" -> TRACKING_DISPLAY
      [] family = "SF Pro Rounded" -> TRACKING_ROUNDED
      [] family = "New York" -> TRACKING_NEW_YORK

ClaimMaxSize(family) ==
    CASE family \in {"SF Pro", "SF Pro Display", "SF Pro Rounded"} -> 80
      [] family = "New York" -> 261
      [] family = "SF Pro Text" -> 20

\* C6: for every supported family F (after the swap) and integer size s, the
\* letter spacing passed to setRangeLetterSpacing is in PIXELS, is 0 when
\* s >= maxSize(F), and is otherwise s * table_F[max(6, floor(s))] / 1000 with
\* the table entry defined, also for s below 6.
C6_TrackingResolution ==
    (RangeApplied /\ rg.first.writes /\ rg.run0.fontSize % 10 = 0) =>
        LET F == rg.first.newFontName.family
            sz == rg.run0.fontSize
            key == Max(6, sz \div 10)
            ls == rg.first.newLetterSpacing
        IN /\ ls.unit = "PIXELS"
           /\ IF sz >= ClaimMaxSize(F) * 10
              THEN ls.value = Num(0)
              ELSE /\ key \in DOMAIN ClaimTable(F)
                   /\ ls.value = Num(sz * ClaimTable(F)[key])

(***************************************************************************)
(* Claims about traverse and run, checked under Spec                       *)
(***************************************************************************)
Supported == {"SF Pro", "SF Pro Text", "SF Pro Display", "SF Pro Rounded", "New York"}
Writes == {"setRangeFontName", "setRangeLetterSpacing"}
NodeIds == DOMAIN nodes
StyledIds == { id \in NodeIds : nodes[id].type = "TEXT" /\ nodes[id].textStyleId # "" }
OnlyOthers(vs, id) == \A k \in DOMAIN vs : vs[k].node = id => vs[k].bucket = "others"
VisitedOnce(vs, id) == Cardinality({ k \in DOMAIN vs : vs[k].node = id }) = 1

\* C1: a text node with a text style (an id, or the mixed marker), at any depth:
\* no run, first or repeated, calls loadFontAsync, setRangeFontName or
\* setRangeLetterSpacing for it; its characters stay as they were before the
\* first run; it has no outcome of applyToRange; and every run counts it once,
\* in `others` only.
C1_StyledTextImmunity ==
    \A id \in StyledIds :
        /\ \A c \in calls : c.node # id
        /\ nodes[id].chars = nodes0[id].chars
        /\ \A o \in outcomes : o.node # id
        /\ OnlyOthers(visits, id)
        /\ \A r \in DOMAIN reports :
              /\ OnlyOthers(reports[r].visits, id)
              /\ VisitedOnce(reports[r].visits, id)
              /\ \A o \in reports[r].outcomes : o.node # id

\* a styled text with the mixed marker and supported families, two frames deep,
\* has been passed by two completed runs, the first of which modified nothing
\* and counted it in others
C1_Witness ==
    /\ pc = "done"
    /\ runs = 2
    /\ Len(reports) = 2
    /\ 3 \in StyledIds
    /\ nodes[3].textStyleId = "MIXED"
    /\ nodes[1].children = <<2>>
    /\ nodes[2].children = <<3>>
    /\ \A p \in DOMAIN nodes[3].chars : nodes[3].chars[p].fontName.family \in Supported
    /\ reports[2].count = [texts |-> 0, others |-> 3, modified |-> 0]

\* C2: when a run and the next run both complete (every load succeeded), the
\* second leaves every character's family, style and letter-spacing as the
\* first left them, classifies Unmodified every range the first classified
\* Modified, and reports modified = 0.
C2_Idempotence ==
    \A k \in DOMAIN reports :
        (k + 1 \in DOMAIN reports /\ reports[k + 1].run = reports[k].run + 1) =>
            /\ reports[k + 1].nodes = reports[k].nodes
            /\ reports[k + 1].count.modified = 0
            /\ \A o \in reports[k].outcomes :
                  o.outcome = "Modified" =>
                     [o EXCEPT !.outcome = "Unmodified"] \in reports[k + 1].outcomes
            /\ \A v \in DOMAIN reports[k + 1].visits :
                  reports[k + 1].visits[v].bucket # "modified"

\* two completed runs over a selection with a text of mixed styles whose
\* characters the first run modified, one of them by a swap to SF Pro Text
C2_Witness ==
    /\ Len(reports) = 2
    /\ reports[1].count.modified >= 1
    /\ \E id \in NodeIds :
          /\ nodes0[id].type = "TEXT"
          /\ Len(nodes0[id].chars) = 2
          /\ nodes0[id].chars[1] = DisplaySmall
          /\ nodes[id].chars[1].fontName.family = FONT_TEXT
          /\ [node |-> id, pos |-> 1, outcome |-> "Modified"] \in reports[1].outcomes
          /\ [node |-> id, pos |-> 2, outcome |-> "Modified"] \in reports[1].outcomes
          /\ [node |-> id, pos |-> 1, outcome |-> "Unmodified"] \in reports[2].outcomes

\* the range applyToRange is working on is as applyToRange read it
RangeUntouched ==
    \A p \in cur.start..cur.end : nodes[cur.node].chars[p] = cur.range

\* C4: every setRangeFontName (and the setRangeLetterSpacing after it) is for a
\* font whose loadFontAsync, called by the same applyToRange for exactly that
\* family and style, has completed; while that load is pending, and after it
\* has failed, the range has neither a new family nor a new letter-spacing.
C4_LoadBeforeApply ==
    /\ \A c \in calls :
          c.op \in Writes =>
             /\ c.fontLoaded
             /\ c.font \in loaded
             /\ [c EXCEPT !.op = "loadFontAsync", !.fontLoaded = TRUE] \in calls
                \/ [c EXCEPT !.op = "loadFontAsync", !.fontLoaded = FALSE] \in calls
    /\ pc = "applyLoad" => RangeUntouched
    /\ (pc = "failed" /\ cur.site = "apply") =>
          /\ RangeUntouched
          /\ runs = 1 => \A p \in cur.start..cur.end :
                            nodes[cur.node].chars[p] = nodes0[cur.node].chars[p]

\* the load of a swap target has failed after some other range was written
C4_Witness ==
    /\ pc = "failed"
    /\ cur.site = "apply"
    /\ cur.res.toText
    /\ cur.pending = [family |-> FONT_TEXT, style |-> "Regular"]
    /\ runs = 1
    /\ \E c \in calls : c.op = "setRangeFontName" /\ c.fontLoaded

\* C5: a failed loadFontAsync ends only the work on its own range or node: the
\* traversal goes on to the next step (the next sibling, the return to the
\* parent, or closePlugin with the summary).
C5_FailureIsolation ==
    pc = "failed" => ENABLED RunContinues

\* C9 as stated: a character of an unsupported family gets the outcome
\* Unsupported, is never written, and no loadFontAsync is ever called for its
\* font.
C9_NoLoadForUnsupported ==
    /\ \A o \in outcomes :
          nodes[o.node].chars[o.pos].fontName.family \notin Supported =>
             o.outcome = "Unsupported"
    /\ \A c \in calls : c.rangeFont.family \in Supported /\ c.font.family \in Supported

\* C9: a character of an unsupported family, in a text of one style or of mixed
\* styles, gets the outcome Unsupported and keeps its family and letter-spacing;
\* applyToRange calls neither setRange* nor loadFontAsync for it; a text of one
\* unsupported style causes no call at all and is counted in others; the only
\* call for such a character is the load of its current font by the loop of
\* line 333 when its text has mixed styles.
C9_UnsupportedFamily ==
    /\ \A o \in outcomes :
          nodes[o.node].chars[o.pos].fontName.family \notin Supported =>
             o.outcome = "Unsupported"
    /\ \A id \in NodeIds : \A p \in DOMAIN nodes0[id].chars :
          nodes0[id].chars[p].fontName.family \notin Supported =>
             nodes[id].chars[p] = nodes0[id].chars[p]
    /\ \A c \in calls :
          c.rangeFont.family \notin Supported =>
             /\ c.op = "loadFontAsync"
             /\ c.site = "preload"
             /\ c.font = c.rangeFont
             /\ RangeMixed(nodes0[c.node].chars, 1, Len(nodes0[c.node].chars))
    /\ \A c \in calls : c.font.family \notin Supported => c.rangeFont = c.font
    /\ \A k \in DOMAIN visits :
          LET n == nodes[visits[k].node]
          IN (n.type = "TEXT" /\ \A p \in DOMAIN n.chars :
                                    n.chars[p].fontName.family \notin Supported)
             => visits[k].bucket = "others"

\* a run has completed over a text of mixed styles whose second character is
\* Helvetica and a text that is Helvetica throughout
C9_Witness ==
    /\ pc = "done"
    /\ \E id, u \in NodeIds :
          /\ nodes0[id].type = "TEXT" /\ nodes0[id].textStyleId = ""
          /\ Len(nodes0[id].chars) = 2
          /\ nodes0[id].chars[2] = Helvetica
          /\ nodes0[id].chars[1].fontName.family \in Supported
          /\ [node |-> id, pos |-> 2, outcome |-> "Unsupported"] \in outcomes
          /\ \E c \in calls : c.node = id /\ c.start = 2 /\ c.op = "loadFontAsync"
          /\ nodes0[u] = TextNode("", <<Helvetica>>)
          /\ \E k \in DOMAIN visits : visits[k] = [node |-> u, bucket |-> "others"]

\* C10: in a text of mixed styles, once a character has been written every font
\* that applyToRange goes on to load for the text is already loaded, and a load
\* that fails finds the text as it was when its processing began.
C10_MixedPreload ==
    /\ (pc = "applyLoad" /\ cur.mixed /\ cur.wrote) => cur.pending \in loaded
    /\ (pc = "failed" /\ cur.mixed /\ cur.site \in {"preload", "apply"}) =>
          nodes[cur.node].chars = cur.before

(***************************************************************************)
(* Claims about the summary of run(), checked under SpecSummary            *)
(***************************************************************************)
Guidance ==
    "Please select texts with 'SF Pro', 'SF Pro Display', 'SF Pro Text', 'SF Pro Rounded', or 'New York' font."
Summarised == sm.pc = "closed"

\* C11: for every count of non-negative integers run() reports one message,
\* the first that matches in this order: modified = 1, the singular "updated";
\* modified > 1, the plural "updated N" with N = modified; texts > 0 and
\* others > 0, "already fixed" for a selection with other items; texts = 1 and
\* others = 0, the singular "already fixed"; texts > 1 and others = 0, the
\* plural "already fixed"; the guidance naming the supported fonts exactly when
\* modified = 0 and texts = 0.
C11_SummarySelection ==
    Summarised =>
        LET c == sm.count
            msg == sm.message
        IN /\ c.modified = 1 => msg = [text |-> "Updated 1 text", n |-> 1]
           /\ c.modified > 1 => msg = [text |-> "Updated N texts", n |-> c.modified]
           /\ (c.modified = 0 /\ c.texts > 0 /\ c.others > 0) =>
                 msg.text = "Texts in selection are already fixed"
           /\ (c.modified = 0 /\ c.texts = 1 /\ c.others = 0) =>
                 msg.text = "Text is already fixed"
           /\ (c.modified = 0 /\ c.texts > 1 /\ c.others = 0) =>
                 msg.text = "Selected texts are already fixed"
           /\ msg.text = Guidance <=> (c.modified = 0 /\ c.texts = 0)
           /\ msg.text \in {"Updated 1 text", "Updated N texts",
                             "Texts in selection are already fixed",
                             "Text is already fixed",
                             "Selected texts are already fixed", Guidance}

\* the count of one modified text and one unsupported shape has been
\* summarised with the singular "updated"
C11_Witness ==
    /\ Summarised
    /\ sm.count = [texts |-> 0, others |-> 1, modified |-> 1]
    /\ sm.message.text = "Updated 1 text"

(***************************************************************************)
(* Count conservation, checked under Spec                                  *)
(***************************************************************************)
RECURSIVE Subtree(_)
\* a node and its descendants
Subtree(id) ==
    {id} \cup UNION { Subtree(nodes[id].children[k]) : k \in DOMAIN nodes[id].children }
\* the nodes of the selection forest
Forest == UNION { Subtree(selection[k]) : k \in DOMAIN selection }
Buckets == {"texts", "others", "modified"}
BucketCount(vs, b) == Cardinality({ k \in DOMAIN vs : vs[k].bucket = b })
\* the classification of a text from the outcomes of its ranges
OwnBucket(os, id) ==
    IF \E o \in os : o.node = id /\ o.outcome = "Modified" THEN "modified"
    ELSE IF \E o \in os : o.node = id /\ o.outcome = "Unmodified" THEN "texts"
    ELSE "others"

\* C12: in every run that reached closePlugin (every load succeeded), every
\* node of the selection forest, at any depth, was visited exactly once and
\* added 1 to exactly one counter, so each counter is the number of nodes put
\* in it and modified + texts + others is the number of nodes of the forest; a
\* node with children is counted in others besides its children's counts; an
\* unstyled text, every character of which got an outcome, is counted modified
\* if any of its ranges was Modified, else texts if any was Unmodified, else
\* others.
C12_CountConservation ==
    \A r \in DOMAIN reports :
        LET rep == reports[r]
        IN /\ \A id \in Forest : VisitedOnce(rep.visits, id)
           /\ \A k \in DOMAIN rep.visits :
                 rep.visits[k].node \in Forest /\ rep.visits[k].bucket \in Buckets
           /\ \A b \in Buckets : rep.count[b] = BucketCount(rep.visits, b)
           /\ rep.count.modified + rep.count.texts + rep.count.others = Cardinality(Forest)
           /\ \A k \in DOMAIN rep.visits :
                 LET id == rep.visits[k].node
                     n == nodes0[id]
                 IN /\ n.hasChildren => rep.visits[k].bucket = "others"
                    /\ (n.type = "TEXT" /\ n.textStyleId = "") =>
                          /\ rep.visits[k].bucket = OwnBucket(rep.outcomes, id)
                          /\ \A p \in DOMAIN n.chars :
                                \E o \in rep.outcomes : o.node = id /\ o.pos = p

\* a run has completed over a text two frames deep whose characters are one
\* Unmodified and one Unsupported: texts = 1 for it, others = 2 for the frames
C12_Witness ==
    /\ pc = "done"
    /\ selection = <<1>>
    /\ Forest = {1, 2, 3}
    /\ nodes0[3] = TextNode("", <<NewYorkFixed, Helvetica>>)
    /\ reports[1].count = [texts |-> 1, others |-> 2, modified |-> 0]
    /\ reports[1].visits = <<[node |-> 3, bucket |-> "texts"],
                             [node |-> 2, bucket |-> "others"],
                             [node |-> 1, bucket |-> "others"]>>

====
